---- MODULE Spec2Model ----
(***************************************************************************)
(* organize-rs (src/lib.rs): Organize::execute over one target directory.  *)
(* The directory is modelled one level deep: its direct entries and the    *)
(* entries of the category folders below it.  File and folder names are    *)
(* sequences of one-character strings, so that split('.') is computed.     *)
(***************************************************************************)
EXTENDS Naturals, Sequences, FiniteSets

VARIABLES path, options, fs, fs0, fsRun1, pc, run, files, order, i, j,
          result, log, enumerated, attempted, vanished, faults

vars == <<path, options, fs, fs0, fsRun1, pc, run, files, order, i, j,
          result, log, enumerated, attempted, vanished, faults>>

\* ---------------------------------------------------------------- bounds
MaxFiles == 2
MaxRuns == 2
MaxFaults == 1

\* ------------------------------------------------------- names and inputs
FileNames == { <<"a", ".", "q", ".", "p">>, <<"p">>, <<"c", ".", "x">> }

CatD == <<"D">>
CatI == <<"I">>
CatNames == {CatD, CatI}
Names == FileNames \cup CatNames

ExtP == <<"p">>
ExtQ == <<"q">>

Paths == {"", "dir"}

\* ----------------------------------------------------------- file system
NoEntries == [n \in Names |-> "none"]

Absent == [kind |-> "none", content |-> "none", entries |-> NoEntries]
File(c) == [kind |-> "file", content |-> c, entries |-> NoEntries]
Dir(es) == [kind |-> "dir", content |-> "none", entries |-> es]

\* OrganizeMethod: the enum of lines 9-21; only Extension carries data.
ExtensionMethod(extensions) == [tag |-> "Extension", extensions |-> extensions]
PlainMethod(tag) == [tag |-> tag, extensions |-> <<>>]

\* The mappings tried: one category, two disjoint categories, and two
\* categories sharing an extension.
Mappings ==
  { [c \in {CatD} |-> <<ExtQ, ExtP>>],
    [c \in CatNames |-> IF c = CatD THEN <<ExtP>> ELSE <<ExtQ>>],
    [c \in CatNames |-> IF c = CatD THEN <<ExtQ, ExtP>> ELSE <<ExtP>>] }

Methods ==
  { ExtensionMethod(m) : m \in Mappings }
    \cup { PlainMethod(t) : t \in {"Date", "Alphabetical", "Size"} }

\* OrganizeOptions::new
OrganizeOptions_new(method, parallel) == [method |-> method, parallel |-> parallel]

\* OrganizeOptions::default sets parallel; set_parallel and new set either
\* value.
Configurations ==
  { OrganizeOptions_new(m, par) : m \in Methods, par \in BOOLEAN }

\* OrganizeMethod::execute takes the flag as _parallel and never reads it:
\* the runs that enter the loop are explored with the value of default().
ReachesLoop(p, opts) == p # "" /\ opts.method.tag = "Extension"

\* The folders that may exist below the directory before a run.
InitialFolders ==
  { Absent,
    Dir([NoEntries EXCEPT ![<<"a", ".", "q", ".", "p">>] = "old",
                          ![<<"c", ".", "x">>] = "old"]) }

RegularFiles(f) == { n \in Names : f[n].kind = "file" }

InitialFileSystems ==
  { f \in [Names -> {Absent, File("c1")} \cup InitialFolders] :
      /\ \A n \in FileNames : f[n] \in {Absent, File("c1")}
      /\ f[CatI] = Absent
      /\ Cardinality(RegularFiles(f)) <= MaxFiles }

\* ------------------------------------------------------- pure operations
\* str::is_empty
IsEmpty_never(p) == FALSE
IsEmpty(p) == p = ""

\* file_name.split('.'): the pieces between the dots, at least one piece.
RECURSIVE Split(_)
Split(s) ==
  IF s = <<>> THEN << <<>> >>
  ELSE LET rest == Split(Tail(s))
       IN  IF Head(s) = "."
             THEN << <<>> >> \o rest
             ELSE << <<Head(s)>> \o Head(rest) >> \o Tail(rest)

\* file_name.split('.').last(): Some(last piece); a split is never empty.
SplitLast(file_name) ==
  LET parts == Split(file_name)
  IN  [some |-> Len(parts) > 0, value |-> parts[Len(parts)]]

\* ext_list.contains(&extension)
Contains_any(ext_list, extension) == TRUE
Contains(ext_list, extension) ==
  \E k \in 1..Len(ext_list) : ext_list[k] = extension

\* The condition under which the body of the inner loop runs for a category.
Matches(file_name, ext_list) ==
  LET extension == SplitLast(file_name)
  IN  extension.some /\ Contains(ext_list, extension.value)

\* create_dir_all(path/folder_name): succeeds on an existing directory, fails
\* on an existing non-directory, and otherwise creates the folder unless the
\* file system refuses (fault).
CreateDirAll_exclusive(f, folder_name, fault) ==
  IF f[folder_name].kind = "none" /\ ~fault
    THEN [ok |-> TRUE, fs |-> [f EXCEPT ![folder_name] = Dir(NoEntries)]]
    ELSE [ok |-> FALSE, fs |-> f]
CreateDirAll(f, folder_name, fault) ==
  IF f[folder_name].kind = "dir" THEN [ok |-> TRUE, fs |-> f]
  ELSE IF f[folder_name].kind = "file" \/ fault THEN [ok |-> FALSE, fs |-> f]
  ELSE [ok |-> TRUE, fs |-> [f EXCEPT ![folder_name] = Dir(NoEntries)]]

\* file_path.exists()
Exists(f, file_name) == f[file_name].kind # "none"

\* copy(path/file_name, path/folder_name/file_name).  outcome is what the file
\* system does when the copy is possible: "ok", "err" (nothing written) or
\* "partial" (the destination was created or truncated before the failure).
CopyOutcomes == {"ok", "err", "partial"}
Copy_move(f, file_name, folder_name, outcome) ==
  IF f[file_name].kind = "file" /\ f[folder_name].kind = "dir" /\ outcome = "ok"
    THEN [ok |-> TRUE,
          fs |-> [f EXCEPT ![folder_name].entries[file_name] = f[file_name].content,
                           ![file_name] = Absent]]
    ELSE [ok |-> FALSE, fs |-> f]
Copy(f, file_name, folder_name, outcome) ==
  IF ~(f[file_name].kind = "file" /\ f[folder_name].kind = "dir")
    THEN [ok |-> FALSE, fs |-> f]
  ELSE IF outcome = "ok"
    THEN [ok |-> TRUE,
          fs |-> [f EXCEPT ![folder_name].entries[file_name] = f[file_name].content]]
  ELSE IF outcome = "partial"
    THEN [ok |-> FALSE,
          fs |-> [f EXCEPT ![folder_name].entries[file_name] = "partial"]]
  ELSE [ok |-> FALSE, fs |-> f]

\* Where the environment can make an operation fail that would succeed.
MkdirCanFault(f, folder_name) == f[folder_name].kind = "none"
CopyCanFault(f, file_name, folder_name) ==
  f[file_name].kind = "file" /\ f[folder_name].kind = "dir"

\* The orders in which a collection can be iterated (read_dir, HashMap).
Orders(S) ==
  { s \in [1..Cardinality(S) -> S] : \A x \in S : \E k \in DOMAIN s : s[k] = x }

\* The entries get_files keeps from a successful read_dir: is_file().
Listed_all(f) == { n \in Names : f[n].kind # "none" }
Listed(f) == { n \in Names : f[n].kind = "file" }

\* OrganizeMethod::get_files: the possible results, given whether read_dir
\* succeeds.  Another method than Extension lists nothing and reads nothing.
GetFiles(method, p, f, readOk) ==
  IF method.tag = "Extension"
    THEN IF readOk /\ p # "" THEN Orders(Listed(f)) ELSE { <<>> }
    ELSE { <<>> }

\* The index of the outer loop after the break of line 63.
AfterBreak_return(idx) == Len(files) + 1
AfterBreak(idx) == idx + 1

\* ------------------------------------------------------------------- log
Op(file_name, folder_name, op, ok) ==
  [run |-> run, file |-> file_name, folder |-> folder_name, op |-> op, ok |-> ok]

\* ------------------------------------------------------------------ Init
Init ==
  /\ path \in Paths
  /\ options \in Configurations
  /\ ReachesLoop(path, options) => options.parallel
  /\ fs \in InitialFileSystems
  /\ fs0 = fs
  /\ fsRun1 = fs
  /\ pc = "ready"
  /\ run = 1
  /\ files = <<>>
  /\ order = <<>>
  /\ i = 1
  /\ j = 1
  /\ result = "none"
  /\ log = {}
  /\ enumerated = {}
  /\ attempted = {}
  /\ vanished = {}
  /\ faults = 0

\* --------------------------------------------------------------- actions
\* Organize::execute, lines 161-166: the empty path is refused.
ExecuteEmptyPath ==
  /\ pc = "ready"
  /\ IsEmpty(path)
  /\ result' = "InvalidInput"
  /\ pc' = "returned"
  /\ UNCHANGED <<path, options, fs, fs0, fsRun1, run, files, order, i, j, log,
                 enumerated, attempted, vanished, faults>>

\* Organize::execute, lines 168-170, into OrganizeMethod::execute up to the
\* head of the loop: get_files, and the iteration order of the mapping.
ExecuteStart ==
  /\ pc = "ready"
  /\ ~IsEmpty(path)
  /\ \E readOk \in BOOLEAN :
       /\ readOk \/ (options.method.tag = "Extension" /\ faults < MaxFaults)
       /\ faults' = IF readOk THEN faults ELSE faults + 1
       /\ files' \in GetFiles(options.method, path, fs, readOk)
       /\ log' = IF options.method.tag = "Extension"
                   THEN log \cup {Op(<<>>, <<>>, "read_dir", readOk /\ path # "")}
                   ELSE log
  /\ order' \in Orders(DOMAIN options.method.extensions)
  /\ i' = 1
  /\ j' = 1
  /\ enumerated' = { files'[k] : k \in DOMAIN files' }
  /\ attempted' = {}
  /\ pc' = "files"
  /\ UNCHANGED <<path, options, fs, fs0, fsRun1, run, result, vanished>>

InLoop ==
  /\ pc = "files"
  /\ options.method.tag = "Extension"
  /\ i <= Len(files)
  /\ j <= Len(order)

\* Line 35 is false: the next category is tried.
SkipCategory ==
  /\ InLoop
  /\ ~Matches(files[i], options.method.extensions[order[j]])
  /\ j' = j + 1
  /\ attempted' = attempted \cup {files[i]}
  /\ UNCHANGED <<path, options, fs, fs0, fsRun1, pc, run, files, order, i,
                 result, log, enumerated, vanished, faults>>

\* Lines 36-50 when the file is gone: the folder is created, the existence
\* check fails, and `continue` resumes the loop over the categories.
MissingFile ==
  /\ InLoop
  /\ Matches(files[i], options.method.extensions[order[j]])
  /\ \E fault \in BOOLEAN :
       LET made == CreateDirAll(fs, order[j], fault)
       IN  /\ fault => (MkdirCanFault(fs, order[j]) /\ faults < MaxFaults)
           /\ faults' = IF fault THEN faults + 1 ELSE faults
           /\ ~Exists(made.fs, files[i])
           /\ fs' = made.fs
           /\ log' = log \cup { Op(files[i], order[j], "mkdir", made.ok),
                                Op(files[i], order[j], "exists", FALSE) }
  /\ j' = j + 1
  /\ attempted' = attempted \cup {files[i]}
  /\ UNCHANGED <<path, options, fs0, fsRun1, pc, run, files, order, i, result,
                 enumerated, vanished>>

\* Lines 36-63 when the file is there: the folder is created, the copy is
\* attempted whatever create_dir_all returned, and `break` ends the loop
\* over the categories.
PlaceFile ==
  /\ InLoop
  /\ Matches(files[i], options.method.extensions[order[j]])
  /\ \E fault \in BOOLEAN, outcome \in CopyOutcomes :
       LET made == CreateDirAll(fs, order[j], fault)
           done == Copy(made.fs, files[i], order[j], outcome)
           used == (IF fault THEN 1 ELSE 0) + (IF outcome = "ok" THEN 0 ELSE 1)
       IN  /\ fault => MkdirCanFault(fs, order[j])
           /\ outcome # "ok" => CopyCanFault(made.fs, files[i], order[j])
           /\ faults + used <= MaxFaults
           /\ faults' = faults + used
           /\ Exists(made.fs, files[i])
           /\ fs' = done.fs
           /\ log' = log \cup { Op(files[i], order[j], "mkdir", made.ok),
                                Op(files[i], order[j], "exists", TRUE),
                                Op(files[i], order[j], "copy", done.ok) }
  /\ i' = AfterBreak(i)
  /\ j' = 1
  /\ attempted' = attempted \cup {files[i]}
  /\ UNCHANGED <<path, options, fs0, fsRun1, pc, run, files, order, result,
                 enumerated, vanished>>

\* The loop over the categories ended without a break: the next file.
NextFile ==
  /\ pc = "files"
  /\ i <= Len(files)
  /\ j > Len(order)
  /\ i' = i + 1
  /\ j' = 1
  /\ attempted' = attempted \cup {files[i]}
  /\ UNCHANGED <<path, options, fs, fs0, fsRun1, pc, run, files, order, result,
                 log, enumerated, vanished, faults>>

\* Line 172: Ok(()) once the loop over the files has ended.
Return ==
  /\ pc = "files"
  /\ i > Len(files)
  /\ result' = "Ok"
  /\ pc' = "returned"
  /\ fsRun1' = IF run = 1 THEN fs ELSE fsRun1
  /\ files' = <<>>
  /\ order' = <<>>
  /\ i' = 1
  /\ j' = 1
  /\ UNCHANGED <<path, options, fs, fs0, run, log, enumerated, attempted,
                 vanished, faults>>

\* Another process removes a candidate file after it was listed and before
\* execute is done with it.
FileVanishes ==
  /\ pc = "files"
  /\ faults < MaxFaults
  /\ faults' = faults + 1
  /\ \E k \in i..Len(files) :
     LET n == files[k]
     IN
       /\ fs[n].kind = "file"
       /\ fs' = [fs EXCEPT ![n] = Absent]
       /\ vanished' = vanished \cup {n}
  /\ UNCHANGED <<path, options, fs0, fsRun1, pc, run, files, order, i, j,
                 result, log, enumerated, attempted>>

\* Organize::new with the same path and an equal configuration: execute
\* consumed the previous value, so a second run is a new Organize.
Organize_new ==
  /\ pc = "returned"
  /\ result = "Ok"
  /\ run < MaxRuns
  /\ run' = run + 1
  /\ pc' = "ready"
  /\ result' = "none"
  /\ files' = <<>>
  /\ order' = <<>>
  /\ i' = 1
  /\ j' = 1
  /\ enumerated' = {}
  /\ attempted' = {}
  /\ UNCHANGED <<path, options, fs, fs0, fsRun1, log, vanished, faults>>

ProgramNext ==
  \/ ExecuteEmptyPath
  \/ ExecuteStart
  \/ SkipCategory
  \/ MissingFile
  \/ PlaceFile
  \/ NextFile
  \/ Return

Next ==
  \/ ExecuteEmptyPath
  \/ ExecuteStart
  \/ SkipCategory
  \/ MissingFile
  \/ PlaceFile
  \/ NextFile
  \/ Return
  \/ FileVanishes
  \/ Organize_new

Spec == Init /\ [][Next]_vars

\* execute is synchronous straight-line code: once called it keeps running.
FairSpec == Init /\ [][Next]_vars /\ WF_vars(ProgramNext)

\* ------------------------------------------------------ claim vocabulary
Done == pc = "returned"

Extensions == options.method.extensions
Categories == DOMAIN Extensions

HasDot(n) == \E k \in 1..Len(n) : n[k] = "."

\* The substring after the last '.', written directly rather than by split.
AfterLastDot(n) ==
  LET k == CHOOSE d \in 1..Len(n) :
             n[d] = "." /\ \A e \in (d + 1)..Len(n) : n[e] # "."
  IN  SubSeq(n, k + 1, Len(n))

Lists(c, ext) == \E k \in 1..Len(Extensions[c]) : Extensions[c][k] = ext

\* The categories that list the extension of a name that has one.
ListingCats(n) ==
  IF HasDot(n) THEN { c \in Categories : Lists(c, AfterLastDot(n)) } ELSE {}

OpsFor(r, n) == { e \in log : e.run = r /\ e.file = n /\ e.op # "read_dir" }
FoldersFor(r, n) == { e.folder : e \in OpsFor(r, n) }
CopiedTo(r, n) == { e.folder : e \in { x \in OpsFor(r, n) : x.op = "copy" /\ x.ok } }
NoFailureFor(r, n) == \A e \in OpsFor(r, n) : e.ok
ReadOk(r) == \E e \in log : e.run = r /\ e.op = "read_dir" /\ e.ok

WasFile(n) == fs0[n].kind = "file"
EntryBefore(c, n) == IF fs0[c].kind = "dir" THEN fs0[c].entries[n] ELSE "none"

\* ------------------------------------------------------------------ C1
\* C1: with an empty path execute returns the InvalidInput error and no
\* file-system operation is performed: nothing is listed, created or copied,
\* whatever the method and the parallel flag.
C1_EmptyPathRefused ==
  path = "" =>
    /\ log = {}
    /\ fs = fs0
    /\ faults = 0
    /\ Done => result = "InvalidInput"

\* An empty path refused for a mapping and a directory a run would have
\* organized, with the flag set.
C1_Witness ==
  /\ Done
  /\ path = ""
  /\ result = "InvalidInput"
  /\ options.method.tag = "Extension"
  /\ options.parallel
  /\ \E n \in Names : WasFile(n) /\ ListingCats(n) # {}

\* ------------------------------------------------------------------ C2
Placed(n, c) ==
  /\ fs[c].kind = "dir"
  /\ fs[c].entries[n] = fs0[n].content
  /\ fs[n] = fs0[n]

C3_NoDotNeverPlaced ==
  \A e \in log : e.op # "read_dir" => HasDot(e.file)

\* ------------------------------------------------------------------ C4
\* C4: for a file whose extension two or more categories list, a run works for
\* one category only: folders are created on its behalf for at most one of
\* them, it is copied into at most one, and into exactly one when nothing
\* failed for it.
C4_ExactlyOneCategory ==
  (Done /\ path # "") =>
    \A n \in enumerated :
      Cardinality(ListingCats(n)) >= 2 =>
        /\ Cardinality(FoldersFor(run, n)) <= 1
        /\ Cardinality(CopiedTo(run, n)) <= 1
        /\ (n \notin vanished /\ NoFailureFor(run, n)) =>
             Cardinality(CopiedTo(run, n)) = 1

\* ------------------------------------------------------------------ C5
\* No extension is listed by two categories of the mapping.
NoSharedExtension ==
  \A c \in Categories : \A d \in Categories \ {c} :
    \A k \in 1..Len(Extensions[c]) : ~Lists(d, Extensions[c][k])

\* C5 as stated: when the file system refuses nothing, the directory after a
\* second run is the directory after the first, for every mapping.
C5_Original ==
  (Done /\ path # "" /\ run >= 2 /\ faults = 0) => fs = fsRun1

\* C5 as amended: the same for the mappings in which no extension is listed
\* by two categories; and a later run lists regular files of the directory
\* only, never a category folder.
C5_IdempotentWithoutSharedExtension ==
  /\ (Done /\ path # "" /\ run >= 2 /\ faults = 0 /\ NoSharedExtension) =>
       fs = fsRun1
  /\ \A n \in enumerated : WasFile(n) /\ (fs[n].kind = "file" \/ n \in vanished)

\* A second run that copied again into the folders the first one created,
\* for two categories.
C5_Witness ==
  /\ Done
  /\ run = 2
  /\ faults = 0
  /\ NoSharedExtension
  /\ Cardinality(Categories) = 2
  /\ fs = fsRun1
  /\ \E n \in enumerated : \E c \in Categories :
       /\ fs0[c].kind = "none"
       /\ c \in CopiedTo(1, n)
       /\ c \in CopiedTo(2, n)

\* ------------------------------------------------------------------ C6
\* What is left of the two loops: the files not yet left behind, and the
\* categories not yet tried for the current one.
Remaining ==
  (Len(files) + 1 - i) * (Len(order) + 2) + (Len(order) + 1 - j)

\* C6: with a non-empty path execute returns Ok whatever failed, and only
\* when every listed file has been attempted; and it always returns: until
\* it has, a step of it is possible, and each step inside the loops leaves
\* less to do (the only other steps are the removals of files by others).
C6_ReturnsOkAfterAllFiles ==
  /\ []((Done /\ path # "") => (result = "Ok" /\ attempted = enumerated))
  /\ []((~Done /\ path # "") => ENABLED ProgramNext)
  /\ [][(pc = "files" /\ pc' = "files") =>
          (Remaining' < Remaining \/ vanished' # vanished)]_vars

\* C6, termination stated as liveness, for FairSpec.
C6_Terminates == (pc = "ready" /\ path # "") ~> (Done /\ result = "Ok")

\* A run that returned Ok after a failure for one file and a copy of the
\* file listed after it.
C6_Witness ==
  /\ Done
  /\ result = "Ok"
  /\ \E n \in enumerated : \E m \in enumerated \ {n} :
       /\ ~NoFailureFor(run, n)
       /\ CopiedTo(run, n) = {}
       /\ CopiedTo(run, m) # {}

Overwritten(c, n) ==
  \E e \in log : e.op = "copy" /\ e.file = n /\ e.folder = c

\* C8: a category folder that exists before execute is never reported as a
\* creation failure and keeps its entries, except the one named as a matched
\* candidate copied into it; and execute deletes nothing.
C8_ExistingFolderKept ==
  /\ \A c \in CatNames :
       fs0[c].kind = "dir" =>
         /\ fs[c].kind = "dir"
         /\ \A e \in log : (e.op = "mkdir" /\ e.folder = c) => e.ok
         /\ \A n \in Names :
              fs[c].entries[n] # fs0[c].entries[n] => Overwritten(c, n)
  /\ \A n \in Names :
       fs0[n].kind # "none" => (fs[n].kind = fs0[n].kind \/ n \in vanished)
  /\ \A c \in CatNames : \A n \in Names :
       EntryBefore(c, n) # "none" =>
         (fs[c].kind = "dir" /\ fs[c].entries[n] # "none")

\* A folder that existed, into which a candidate was copied over the entry
\* of its name while the other entry stayed.
C8_Witness ==
  /\ Done
  /\ \E c \in Categories : \E n \in enumerated : \E m \in Names \ {n} :
       /\ fs0[c].kind = "dir"
       /\ fs0[c].entries[n] = "old"
       /\ fs[c].entries[n] = fs0[n].content
       /\ fs0[c].entries[m] = "old"
       /\ fs[c].entries[m] = "old"

\* ------------------------------------------------------------------ C9
\* C9: once a matched file is found missing, no other category is evaluated
\* for it in that run: every operation made for it names the one folder.
C9_MissingFileSkipped ==
  \A e \in log :
    (e.op = "exists" /\ ~e.ok) =>
      \A x \in OpsFor(e.run, e.file) : x.folder = e.folder

\* ----------------------------------------------------------------- C10
\* C10: after a failed creation of the folder for a file, no existence check
\* and no copy is attempted for that file and folder.
C10_AbandonedAfterCreateFailure ==
  \A e \in log :
    (e.op = "mkdir" /\ ~e.ok) =>
      \A x \in OpsFor(e.run, e.file) :
        x.folder = e.folder => x.op = "mkdir"

====
